---- MODULE Spec2Model ----
(***************************************************************************)
(* Study-session backend (src/main.py): sessions and chat messages kept in *)
(* two collections of a document store, and a template explainer.          *)
(*                                                                         *)
(* Text is a sequence of one-character strings; the fixed boilerplate of   *)
(* the explainer is kept as whole string chunks inside such a sequence.    *)
(* A timestamp is a number of microseconds since the epoch.  An ObjectId   *)
(* is the number its 24 hex digits denote.                                 *)
(***************************************************************************)
EXTENDS Integers, Sequences, FiniteSets, TLC

VARIABLES db, clock, horizon, studysession, message, call, response

vars == <<db, clock, horizon, studysession, message, call, response>>

-----------------------------------------------------------------------------
(* Bounds of the model *)

\* post_message requests in flight at once
MaxCalls == 2
\* sessions created on top of the initial store
MaxSessions == 1
\* microseconds the clock may advance
MaxClock == 1
\* the same two, in the specification with the queries
MaxListed == 2
MaxQueryClock == 1

Calls == 1..MaxCalls

-----------------------------------------------------------------------------
(* Program constants *)

TitleMaxLength == 200
SessionLimitMax == 100
MessageLimitMax == 500
SessionLimitDefault == 20
MessageLimitDefault == 100
\* len("Topic: ")
HeaderPrefixLen == 7
\* length of the hex form of an ObjectId
ObjectIdHexLen == 24

-----------------------------------------------------------------------------
(* Text helpers *)

Min(a, b) == IF a < b THEN a ELSE b
Max(a, b) == IF a > b THEN a ELSE b

\* the characters str.strip() removes
Whitespace == {" ", "\t", "\n"}

RECURSIVE lstrip(_)
lstrip(s) ==
  IF s # <<>> /\ Head(s) \in Whitespace THEN lstrip(Tail(s)) ELSE s

RECURSIVE rstrip(_)
rstrip(s) ==
  IF s # <<>> /\ s[Len(s)] \in Whitespace
  THEN rstrip(SubSeq(s, 1, Len(s) - 1)) ELSE s

\* str.strip()
strip(s) == rstrip(lstrip(s))

\* ch * n
Repeat(ch, n) == [i \in 1..n |-> ch]

RECURSIVE Join(_, _)
\* sep.join(parts)
Join(parts, sep) ==
  IF parts = <<>> THEN <<>>
  ELSE IF Len(parts) = 1 THEN parts[1]
  ELSE parts[1] \o sep \o Join(Tail(parts), sep)

-----------------------------------------------------------------------------
(* bson.ObjectId *)

HexLower == <<"0", "1", "2", "3", "4", "5", "6", "7", "8", "9",
              "a", "b", "c", "d", "e", "f">>
HexUpper == <<"0", "1", "2", "3", "4", "5", "6", "7", "8", "9",
              "A", "B", "C", "D", "E", "F">>
HexChars == {HexLower[i] : i \in 1..16} \cup {HexUpper[i] : i \in 1..16}

HexValue(c) ==
  (CHOOSE i \in 1..16 : HexLower[i] = c \/ HexUpper[i] = c) - 1

RECURSIVE HexDigits(_, _)
\* n written with w lowercase hex digits
HexDigits(n, w) ==
  IF w = 0 THEN <<>>
  ELSE Append(HexDigits(n \div 16, w - 1), HexLower[(n % 16) + 1])

\* str(ObjectId)
ObjectIdStr(oid) == HexDigits(oid, ObjectIdHexLen)

\* ObjectId.is_valid(s), s a str
ObjectId_is_valid(s) ==
  /\ Len(s) = ObjectIdHexLen
  /\ \A i \in 1..Len(s) : s[i] \in HexChars

RECURSIVE HexNumber(_, _)
HexNumber(s, acc) ==
  IF s = <<>> THEN acc ELSE HexNumber(Tail(s), acc * 16 + HexValue(Head(s)))

\* ObjectId(s), for a valid s
ObjectId(s) == HexNumber(s, 0)

\* the id the store gives the next inserted document
NewObjectId == Len(studysession) + Len(message) + 1

-----------------------------------------------------------------------------
(* Request models *)

\* CreateSessionRequest: Field(..., min_length=1, max_length=200) on the raw title
CreateSessionRequest(title) == Len(title) >= 1 /\ Len(title) <= TitleMaxLength

\* PostMessageRequest: Field(..., min_length=1) on the raw content
PostMessageRequest(content) == Len(content) >= 1

-----------------------------------------------------------------------------
(* The explainer *)

\* the seven sections appended at lines 49-69, which do not use the topic
StaticSections == <<
  <<"Key ideas\n- Concept 1: what it is and why it matters\n- Concept 2: how it connects\n- Concept 3: common pitfalls">>,
  <<"Step-by-step breakdown\n1) Start with the core definition\n2) Build an intuitive picture\n3) Add the formal detail\n4) Work through a tiny example\n5) Check your understanding">>,
  <<"Analogy\n- Imagine you're explaining it to a 10-year-old using a real-life story.">>,
  <<"Worked example\n- Problem: a small, realistic question about the topic\n- Solution: show the steps with 1-2 short calculations or bullet points">>,
  <<"Common mistakes\n- Misunderstanding A\n- Misunderstanding B\n- Shortcut to avoid them">>,
  <<"Rapid self-quiz\n- Q1: ...\n- Q2: ...\n- Q3: ...\n(Answer in your head first, then check with notes)">>,
  <<"Mini study plan (20 minutes)\n- 5m: review summary + key ideas\n- 10m: do 2 tiny problems\n- 5m: reflect: what still feels fuzzy?">> >>

\* generate_explanation with the topic used as given, not stripped
generate_explanation_unstripped(topic) ==
  LET topic_clean == topic
      sections ==
        << <<"Quick summary\n- ">> \o topic_clean
             \o <<" in one sentence: [A clear, simple definition].">> >>
          \o StaticSections
      header == <<"Topic: ">> \o topic_clean \o <<"\n">>
                  \o Repeat("=", HeaderPrefixLen + Len(topic_clean))
      body == Join(sections, <<"\n\n">>)
  IN  header \o <<"\n\n">> \o body

generate_explanation(topic) ==
  LET topic_clean == strip(topic)
      sections ==
        << <<"Quick summary\n- ">> \o topic_clean
             \o <<" in one sentence: [A clear, simple definition].">> >>
          \o StaticSections
      header == <<"Topic: ">> \o topic_clean \o <<"\n">>
                  \o Repeat("=", HeaderPrefixLen + Len(topic_clean))
      body == Join(sections, <<"\n\n">>)
  IN  header \o <<"\n\n">> \o body

-----------------------------------------------------------------------------
(* Serialisation helper *)

RECURSIVE DecDigits(_, _)
\* n written with w decimal digits
DecDigits(n, w) ==
  IF w = 0 THEN <<>>
  ELSE Append(DecDigits(n \div 10, w - 1), HexLower[(n % 10) + 1])

\* datetime.isoformat() of the aware UTC datetime t microseconds after the
\* epoch (t below one second): the fraction is left out when it is zero
isoformat(t) ==
  <<"1970-01-01T00:00:00">>
    \o (IF t = 0 THEN <<>> ELSE <<".">> \o DecDigits(t, 6))
    \o <<"+00:00">>

\* the keys whose values are datetimes (isinstance(v, datetime))
DatetimeKeys == {"created_at", "updated_at"}

to_str_id(doc) ==
  [k \in (DOMAIN doc \ {"_id"}) \cup {"id"} |->
     IF k = "id" THEN ObjectIdStr(doc._id)
     ELSE IF k \in DatetimeKeys THEN isoformat(doc[k])
     ELSE doc[k]]

-----------------------------------------------------------------------------
(* The document store (pymongo collections), as the handlers use it *)

\* collection.insert_one(data): the store adds the _id
insert_one(coll, data) ==
  Append(coll, [k \in DOMAIN data \cup {"_id"} |->
                  IF k = "_id" THEN NewObjectId ELSE data[k]])

\* collection.find({}): the positions of all documents
find_all(coll) == DOMAIN coll

\* collection.find({"session_id": session_id})
find_by_session(coll, session_id) ==
  {i \in DOMAIN coll : coll[i].session_id = session_id}

RECURSIVE Arrangements(_)
\* every order of the positions G: the store does not fix the order of
\* documents with equal keys
Arrangements(G) ==
  IF G = {} THEN {<<>>}
  ELSE UNION {{<<i>> \o rest : rest \in Arrangements(G \ {i})} : i \in G}

RECURSIVE Orders(_, _, _, _, _, _)
\* the orders by key of the found positions, whose keys lie in lo..hi
Orders(coll, found, key, direction, lo, hi) ==
  IF found = {} THEN {<<>>}
  ELSE IF lo = hi THEN Arrangements(found)
  ELSE LET mid == (lo + hi) \div 2
           lower == {i \in found : coll[i][key] <= mid}
           upper == found \ lower
       IN  IF direction = 1
           THEN {a \o b : a \in Orders(coll, lower, key, direction, lo, mid),
                          b \in Orders(coll, upper, key, direction, mid + 1, hi)}
           ELSE {a \o b : a \in Orders(coll, upper, key, direction, mid + 1, hi),
                          b \in Orders(coll, lower, key, direction, lo, mid)}

\* cursor.sort(key, direction): every order of the found positions that the
\* sort allows; the keys are timestamps, none after the horizon
sort(coll, found, key, direction) ==
  Orders(coll, found, key, direction, 0, horizon)

\* cursor.limit(n): 0 is no limit, a negative n counts as -n
limit(order, n) ==
  IF n = 0 THEN order
  ELSE SubSeq(order, 1, Min(Len(order), IF n < 0 THEN 0 - n ELSE n))

\* update_one with upsert=True: a document is made when none matches
update_one_upsert(coll, oid, t) ==
  IF \E i \in DOMAIN coll : coll[i]._id = oid
  THEN LET i == CHOOSE j \in DOMAIN coll : coll[j]._id = oid
       IN  [coll EXCEPT ![i].updated_at = t]
  ELSE Append(coll, [_id |-> oid, updated_at |-> t])

\* update_one({"_id": oid}, {"$set": {"updated_at": t}}), no upsert
update_one(coll, oid, t) ==
  IF \E i \in DOMAIN coll : coll[i]._id = oid
  THEN LET i == CHOOSE j \in DOMAIN coll : coll[j]._id = oid
       IN  [coll EXCEPT ![i].updated_at = t]
  ELSE coll

-----------------------------------------------------------------------------
(* State *)

\* datetime.now(timezone.utc): the clock does not run backwards; the model
\* follows it up to the horizon
Now == {t \in clock..(clock + 1) : t <= horizon}

NoCall == [pc |-> "idle", session_id |-> <<>>, content |-> <<>>, now |-> 0,
           user_id |-> 0, asst_created |-> 0, asst_updated |-> 0,
           asst_id |-> 0, touch_now |-> 0, touch |-> "none"]

\* the reply sent by the step just taken, if it sent one
NoResponse == [op |-> "none", status |-> 0, arg |-> <<>>, body |-> <<>>]

Init ==
  /\ db \in {"None", "Database"}
  /\ clock = 0
  /\ horizon = MaxClock
  /\ studysession = <<>>
  /\ message = <<>>
  /\ call = [p \in Calls |-> NoCall]
  /\ response = NoResponse

-----------------------------------------------------------------------------
(* POST /api/sessions *)

create_session(title) ==
  /\ UNCHANGED <<db, horizon, message, call>>
  /\ IF ~CreateSessionRequest(title)
     THEN /\ response' = [op |-> "create_session", status |-> 422,
                          arg |-> title, body |-> <<>>]
          /\ UNCHANGED <<clock, studysession>>
     ELSE IF db = "None"
     THEN /\ response' = [op |-> "create_session", status |-> 500,
                          arg |-> title, body |-> <<>>]
          /\ UNCHANGED <<clock, studysession>>
     ELSE \E now \in Now :
            LET data == [title |-> strip(title), created_at |-> now,
                         updated_at |-> now]
            IN  /\ clock' = now
                /\ studysession' = insert_one(studysession, data)
                /\ response' = [op |-> "create_session", status |-> 200,
                                arg |-> title,
                                body |-> [id |-> ObjectIdStr(NewObjectId),
                                          title |-> data.title]]

-----------------------------------------------------------------------------
(* GET /api/sessions *)

\* list_sessions without the db check
list_sessions_unchecked(n) ==
  /\ UNCHANGED <<db, horizon, clock, studysession, message, call>>
  /\ \E order \in sort(studysession, find_all(studysession), "updated_at", -1) :
       LET items == limit(order, Max(1, Min(n, SessionLimitMax)))
       IN  response' = [op |-> "list_sessions", status |-> 200, arg |-> n,
                        body |-> [i \in DOMAIN items |->
                                    to_str_id(studysession[items[i]])]]

\* list_sessions with limit(min(limit, 100)): the lower clamp left out
list_sessions_no_floor(n) ==
  /\ UNCHANGED <<db, horizon, clock, studysession, message, call>>
  /\ IF db = "None"
     THEN response' = [op |-> "list_sessions", status |-> 500, arg |-> n,
                       body |-> <<>>]
     ELSE \E order \in sort(studysession, find_all(studysession), "updated_at", -1) :
            LET items == limit(order, Min(n, SessionLimitMax))
            IN  response' = [op |-> "list_sessions", status |-> 200, arg |-> n,
                             body |-> [i \in DOMAIN items |->
                                         to_str_id(studysession[items[i]])]]

list_sessions(n) ==
  /\ UNCHANGED <<db, horizon, clock, studysession, message, call>>
  /\ IF db = "None"
     THEN response' = [op |-> "list_sessions", status |-> 500, arg |-> n,
                       body |-> <<>>]
     ELSE \E order \in sort(studysession, find_all(studysession), "updated_at", -1) :
            LET items == limit(order, Max(1, Min(n, SessionLimitMax)))
            IN  response' = [op |-> "list_sessions", status |-> 200, arg |-> n,
                             body |-> [i \in DOMAIN items |->
                                         to_str_id(studysession[items[i]])]]

-----------------------------------------------------------------------------
(* GET /api/sessions/{session_id}/messages *)

\* get_messages sorted like the session list: created_at descending
get_messages_descending(session_id, n) ==
  /\ UNCHANGED <<db, horizon, clock, studysession, message, call>>
  /\ IF db = "None"
     THEN response' = [op |-> "get_messages", status |-> 500,
                       arg |-> <<session_id, n>>, body |-> <<>>]
     ELSE \E order \in sort(message, find_by_session(message, session_id),
                            "created_at", -1) :
            LET cursor == limit(order, Max(1, Min(n, MessageLimitMax)))
            IN  response' = [op |-> "get_messages", status |-> 200,
                             arg |-> <<session_id, n>>,
                             body |-> [i \in DOMAIN cursor |->
                                         to_str_id(message[cursor[i]])]]

get_messages(session_id, n) ==
  /\ UNCHANGED <<db, horizon, clock, studysession, message, call>>
  /\ IF db = "None"
     THEN response' = [op |-> "get_messages", status |-> 500,
                       arg |-> <<session_id, n>>, body |-> <<>>]
     ELSE \E order \in sort(message, find_by_session(message, session_id),
                            "created_at", 1) :
            LET cursor == limit(order, Max(1, Min(n, MessageLimitMax)))
            IN  response' = [op |-> "get_messages", status |-> 200,
                             arg |-> <<session_id, n>>,
                             body |-> [i \in DOMAIN cursor |->
                                         to_str_id(message[cursor[i]])]]

-----------------------------------------------------------------------------
(* POST /api/sessions/{session_id}/messages, one step per clock read and   *)
(* per store call, so that requests in flight interleave                   *)

Reply(op, status, arg, body) ==
  [op |-> op, status |-> status, arg |-> arg, body |-> body]

\* the request arrives: body validation, the db check, now (line 152)
post_message_begin(p, session_id, content) ==
  /\ call[p].pc = "idle"
  /\ UNCHANGED <<db, horizon, studysession, message>>
  /\ IF ~PostMessageRequest(content)
     THEN /\ call' = [call EXCEPT ![p].pc = "rejected",
                                  ![p].session_id = session_id,
                                  ![p].content = content]
          /\ response' = Reply("post_message", 422, <<session_id, content>>, <<>>)
          /\ UNCHANGED clock
     ELSE IF db = "None"
     THEN /\ call' = [call EXCEPT ![p].pc = "unavailable",
                                  ![p].session_id = session_id,
                                  ![p].content = content]
          /\ response' = Reply("post_message", 500, <<session_id, content>>, <<>>)
          /\ UNCHANGED clock
     ELSE \E now \in Now :
            /\ clock' = now
            /\ response' = NoResponse
            /\ call' = [call EXCEPT ![p].pc = "insert_user",
                                    ![p].session_id = session_id,
                                    ![p].content = content,
                                    ![p].now = now]

\* user_msg, as built at lines 153-159
user_msg(p) ==
  [session_id |-> call[p].session_id, role |-> "user",
   content |-> strip(call[p].content),
   created_at |-> call[p].now, updated_at |-> call[p].now]

\* db["message"].insert_one(user_msg), or the store raises
post_message_insert_user(p) ==
  /\ call[p].pc = "insert_user"
  /\ UNCHANGED <<db, horizon, clock, studysession>>
  /\ \/ /\ message' = insert_one(message, user_msg(p))
        /\ call' = [call EXCEPT ![p].pc = "asst_created",
                                ![p].user_id = NewObjectId]
        /\ response' = NoResponse
     \/ /\ call' = [call EXCEPT ![p].pc = "error"]
        /\ response' = Reply("post_message", 500,
                             <<call[p].session_id, call[p].content>>, <<>>)
        /\ UNCHANGED message

\* "created_at": datetime.now(timezone.utc) of asst_msg
post_message_asst_created(p) ==
  /\ call[p].pc = "asst_created"
  /\ UNCHANGED <<db, horizon, studysession, message>>
  /\ response' = NoResponse
  /\ \E now \in Now :
       /\ clock' = now
       /\ call' = [call EXCEPT ![p].pc = "asst_updated",
                               ![p].asst_created = now]

\* "updated_at": datetime.now(timezone.utc) of asst_msg
post_message_asst_updated(p) ==
  /\ call[p].pc = "asst_updated"
  /\ UNCHANGED <<db, horizon, studysession, message>>
  /\ response' = NoResponse
  /\ \E now \in Now :
       /\ clock' = now
       /\ call' = [call EXCEPT ![p].pc = "insert_asst",
                               ![p].asst_updated = now]

\* asst_msg copied from user_msg with the role left as it was
asst_msg_role_user(p) ==
  [session_id |-> call[p].session_id, role |-> "user",
   content |-> generate_explanation(call[p].content),
   created_at |-> call[p].asst_created, updated_at |-> call[p].asst_updated]

\* asst_msg, as built at lines 162-169
asst_msg(p) ==
  [session_id |-> call[p].session_id, role |-> "assistant",
   content |-> generate_explanation(call[p].content),
   created_at |-> call[p].asst_created, updated_at |-> call[p].asst_updated]

\* db["message"].insert_one(asst_msg), or the store raises
post_message_insert_asst(p) ==
  /\ call[p].pc = "insert_asst"
  /\ UNCHANGED <<db, horizon, clock, studysession>>
  /\ \/ /\ message' = insert_one(message, asst_msg(p))
        /\ call' = [call EXCEPT ![p].pc = "touch",
                                ![p].asst_id = NewObjectId]
        /\ response' = NoResponse
     \/ /\ call' = [call EXCEPT ![p].pc = "error"]
        /\ response' = Reply("post_message", 500,
                             <<call[p].session_id, call[p].content>>, <<>>)
        /\ UNCHANGED message

\* the return at line 182: both messages as the call holds them, which is
\* as they were stored
post_message_return(p) ==
  Reply("post_message", 200, <<call[p].session_id, call[p].content>>,
        <<to_str_id(CHOOSE m \in {message[i] : i \in DOMAIN message} :
                      m._id = call[p].user_id),
          to_str_id(CHOOSE m \in {message[i] : i \in DOMAIN message} :
                      m._id = call[p].asst_id)>>)

\* ObjectId.is_valid(session_id), and the timestamp of the $set
post_message_touch(p) ==
  /\ call[p].pc = "touch"
  /\ UNCHANGED <<db, horizon, studysession, message>>
  /\ IF ObjectId_is_valid(call[p].session_id)
     THEN \E now \in Now :
            /\ clock' = now
            /\ response' = NoResponse
            /\ call' = [call EXCEPT ![p].pc = "update_one",
                                    ![p].touch_now = now]
     ELSE /\ call' = [call EXCEPT ![p].pc = "done", ![p].touch = "skipped"]
          /\ response' = post_message_return(p)
          /\ UNCHANGED clock

\* the touch writing the request's first timestamp, now, instead of a
\* fresh one
post_message_update_one_stale(p) ==
  /\ call[p].pc = "update_one"
  /\ UNCHANGED <<db, horizon, clock, message>>
  /\ response' = post_message_return(p)
  /\ \/ /\ studysession' = update_one(studysession,
                                      ObjectId(call[p].session_id),
                                      call[p].now)
        /\ call' = [call EXCEPT ![p].pc = "done", ![p].touch = "sent"]
     \/ /\ call' = [call EXCEPT ![p].pc = "done", ![p].touch = "raised"]
        /\ UNCHANGED studysession

\* db["studysession"].update_one(...), or the store raises and the
\* exception is dropped; then the return
post_message_update_one(p) ==
  /\ call[p].pc = "update_one"
  /\ UNCHANGED <<db, horizon, clock, message>>
  /\ response' = post_message_return(p)
  /\ \/ /\ studysession' = update_one(studysession,
                                      ObjectId(call[p].session_id),
                                      call[p].touch_now)
        /\ call' = [call EXCEPT ![p].pc = "done", ![p].touch = "sent"]
     \/ /\ call' = [call EXCEPT ![p].pc = "done", ![p].touch = "raised"]
        /\ UNCHANGED studysession

post_message(p) ==
  \/ post_message_insert_user(p)
  \/ post_message_asst_created(p)
  \/ post_message_asst_updated(p)
  \/ post_message_insert_asst(p)
  \/ post_message_touch(p)
  \/ post_message_update_one(p)

-----------------------------------------------------------------------------
(* Requests the model sends *)

\* a well-formed id that no document has, and two strings that are no id
AbsentId == HexDigits(255, ObjectIdHexLen)
NotAnId == {<<"x">>, Repeat("g", ObjectIdHexLen)}

\* the ids of the stored sessions, as create_session returned them
StoredIds == {ObjectIdStr(studysession[i]._id) : i \in DOMAIN studysession}

Contents == {<<>>, <<" ">>, <<" ", "a", "\t">>}

Titles == {<<"a">>}

\* calls are taken in the order of their numbers
NextCall(p) == \A q \in Calls : q < p => call[q].pc # "idle"

Next ==
  \/ /\ Len(studysession) < MaxSessions
     /\ \E title \in Titles : create_session(title)
  \/ \E p \in Calls, session_id \in StoredIds \cup {AbsentId, <<"x">>},
        content \in Contents :
       NextCall(p) /\ post_message_begin(p, session_id, content)
  \/ \E p \in Calls : post_message(p)

Spec == Init /\ [][Next]_vars

-----------------------------------------------------------------------------
(* The same service with its two queries.  A query reads the store alone,  *)
(* and every store contents a request leaves behind half-way is also left  *)
(* behind by a request that failed there, so the queries are sent between  *)
(* requests.  A query changes nothing a query reads, so a second query in  *)
(* a row reaches no state that the first one does not.  The posts are      *)
(* scheduled one after the other, except that a post that has read its     *)
(* first timestamp may be overtaken by another before it inserts: that is  *)
(* what leaves messages stored out of the order of their created_at.       *)

Quiescent ==
  /\ \A p \in Calls :
       call[p].pc \in {"idle", "rejected", "unavailable", "error", "done"}
  /\ response.op \notin {"list_sessions", "get_messages"}

SessionLimits == {-1, 0, 1, 2, 1000}
MessageLimits == {0, 2, 3, MessageLimitMax + 1}

\* every other call is finished, not begun, or waiting at its first insert
Overtaken(p) ==
  \A q \in Calls \ {p} :
    call[q].pc \in {"idle", "insert_user", "rejected", "unavailable", "error", "done"}

\* The store may also be one that earlier requests have filled past a full
\* page of each query: sessions created one microsecond apart, then posts
\* sent one after another to the first of them, each stamping its two
\* messages and its touch one microsecond apart.  The calls followed are
\* then the last posts of that history, all returned.
ArchivedSessions == SessionLimitMax + 1
ArchivedPosts == (MessageLimitMax \div 2) + 1
ArchiveClock == ArchivedSessions + 2 * ArchivedPosts

ArchivedSession(i) ==
  [_id |-> i, title |-> strip(<<"a">>), created_at |-> i,
   updated_at |-> IF i = 1 THEN ArchiveClock ELSE i]

ArchivedMessage(k) ==
  [_id |-> ArchivedSessions + k, session_id |-> ObjectIdStr(1),
   role |-> IF k % 2 = 1 THEN "user" ELSE "assistant",
   content |-> IF k % 2 = 1 THEN strip(<<"a">>)
                            ELSE generate_explanation(<<"a">>),
   created_at |-> ArchivedSessions + k, updated_at |-> ArchivedSessions + k]

ArchivedCall(p) ==
  LET u == ArchivedSessions + 2 * (ArchivedPosts - MaxCalls + p) - 1
  IN  [pc |-> "done", session_id |-> ObjectIdStr(1), content |-> <<"a">>,
       now |-> u, user_id |-> u, asst_created |-> u + 1,
       asst_updated |-> u + 1, asst_id |-> u + 1, touch_now |-> u + 1,
       touch |-> "sent"]

InitQuery ==
  /\ db = "Database"
  /\ response = NoResponse
  /\ \/ /\ clock = 0
        /\ horizon = MaxQueryClock
        /\ studysession = <<>>
        /\ message = <<>>
        /\ call = [p \in Calls |-> NoCall]
     \/ /\ clock = ArchiveClock
        /\ horizon = ArchiveClock + MaxQueryClock
        /\ studysession = [i \in 1..ArchivedSessions |-> ArchivedSession(i)]
        /\ message = [k \in 1..(2 * ArchivedPosts) |-> ArchivedMessage(k)]
        /\ call = [p \in Calls |-> ArchivedCall(p)]

NextQuery ==
  \/ /\ Len(studysession) < MaxListed
     /\ \E title \in Titles : create_session(title)
  \/ \E p \in Calls, session_id \in StoredIds \cup {AbsentId} :
       NextCall(p) /\ post_message_begin(p, session_id, <<"a">>)
  \/ \E p \in Calls : Overtaken(p) /\ post_message(p)
  \/ /\ Quiescent
     /\ \E n \in SessionLimits : list_sessions(n)
  \/ /\ Quiescent
     /\ \E session_id \in StoredIds \cup {AbsentId}, n \in MessageLimits :
          get_messages(session_id, n)

SpecQuery == InitQuery /\ [][NextQuery]_vars

-----------------------------------------------------------------------------
(* The service started without a store: db is None *)

NoneTitles == {<<>>, <<" ">>, <<"a">>, Repeat("a", TitleMaxLength + 1)}

InitNone ==
  /\ db = "None"
  /\ clock = 0
  /\ horizon = MaxClock
  /\ studysession = <<>>
  /\ message = <<>>
  /\ call = [p \in Calls |-> NoCall]
  /\ response = NoResponse

NextNone ==
  \/ \E title \in NoneTitles : create_session(title)
  \/ \E p \in Calls, session_id \in {AbsentId} \cup NotAnId,
        content \in Contents :
       NextCall(p) /\ post_message_begin(p, session_id, content)
  \/ \E n \in SessionLimits \cup {SessionLimitDefault} : list_sessions(n)
  \/ \E session_id \in {AbsentId} \cup NotAnId,
        n \in MessageLimits \cup {MessageLimitDefault} :
       get_messages(session_id, n)

SpecNone == InitNone /\ [][NextNone]_vars

-----------------------------------------------------------------------------
(* Session creation at the limits of the title length *)

\* lead blanks, then n letters, then trail blanks
Padded(lead, n, trail) ==
  Repeat(" ", lead) \o Repeat("a", n) \o Repeat(" ", trail)

BoundaryTitles ==
  {Padded(lead, n, trail) :
     lead \in 0..1, trail \in 0..1,
     n \in {0, 1, TitleMaxLength - 1, TitleMaxLength, TitleMaxLength + 1}}
  \cup {<<"\t", "\n">>, <<"a", " ", "a">>}

InitTitle ==
  /\ db = "Database"
  /\ clock = 0
  /\ horizon = MaxClock
  /\ studysession = <<>>
  /\ message = <<>>
  /\ call = [p \in Calls |-> NoCall]
  /\ response = NoResponse

NextTitle ==
  \/ /\ Len(studysession) < MaxListed
     /\ \E title \in BoundaryTitles : create_session(title)
  \/ list_sessions(SessionLimitDefault)

SpecTitle == InitTitle /\ [][NextTitle]_vars

-----------------------------------------------------------------------------
(* Vocabulary of the properties *)

\* the positions of the messages a call inserted (insert_one leaves the
\* new _id in the call's user_msg and asst_msg)
Owned(p) ==
  {i \in DOMAIN message :
     \/ call[p].user_id # 0 /\ message[i]._id = call[p].user_id
     \/ call[p].asst_id # 0 /\ message[i]._id = call[p].asst_id}

PosOf(id) == CHOOSE i \in DOMAIN message : message[i]._id = id

\* the session a session_id string denotes, if it denotes one
Matches(session_id) ==
  /\ ObjectId_is_valid(session_id)
  /\ \E i \in DOMAIN studysession : studysession[i]._id = ObjectId(session_id)

\* the messages of one session, in insertion order
OfSession(session_id) ==
  SelectSeq(message, LAMBDA m : m.session_id = session_id)

-----------------------------------------------------------------------------
\* C1: every post_message call that has returned successfully has added
\* exactly two records to the messages collection, a user record and, after
\* it, an assistant record, both with the call's session_id, the assistant's
\* created_at not before the user's; and every stored message was added by
\* exactly one call.
C1_TwoMessagesPerCall ==
  /\ \A p \in Calls :
       call[p].pc = "done" =>
         /\ Cardinality(Owned(p)) = 2
         /\ \E i, j \in Owned(p) :
              /\ i < j
              /\ message[i]._id = call[p].user_id
              /\ message[j]._id = call[p].asst_id
              /\ message[i].role = "user"
              /\ message[j].role = "assistant"
              /\ message[i].session_id = call[p].session_id
              /\ message[j].session_id = call[p].session_id
              /\ message[j].created_at >= message[i].created_at
  /\ \A i \in DOMAIN message :
       Cardinality({p \in Calls : i \in Owned(p)}) = 1

\* two calls have returned, one of them with an assistant record stamped
\* strictly later than its user record
C1_Witness ==
  /\ \A p \in Calls : call[p].pc = "done"
  /\ \E p \in Calls :
       message[PosOf(call[p].asst_id)].created_at
         > message[PosOf(call[p].user_id)].created_at

-----------------------------------------------------------------------------
\* C3: with the store configured, a post_message whose trimmed content is
\* empty fails validation and inserts nothing, so every stored user message
\* has non-empty content.
C3_BlankContentRejected ==
  /\ \A p \in Calls :
       (db = "Database" /\ call[p].pc # "idle"
          /\ Len(strip(call[p].content)) < 1) =>
         (call[p].pc = "rejected" /\ Owned(p) = {})
  /\ \A i \in DOMAIN message :
       message[i].role = "user" => Len(message[i].content) >= 1

-----------------------------------------------------------------------------
\* C9: every stored message, user and assistant alike, has created_at equal
\* to updated_at.
C9_OneTimestampPerMessage ==
  \A i \in DOMAIN message : message[i].created_at = message[i].updated_at

-----------------------------------------------------------------------------
\* C7: a post_message whose session_id matches no stored session, or whose
\* session touch raises in the store, is accepted like any other, goes on
\* from its second insert to a successful return with both of its messages
\* stored, and no step of it adds a session or changes a stored one.
C7_UnknownSessionOrFailedTouch ==
  [][\A p \in Calls :
       call'[p] # call[p] =>
         /\ (call[p].pc = "idle" /\ ~Matches(call'[p].session_id)
               /\ PostMessageRequest(call'[p].content) /\ db = "Database")
              => call'[p].pc = "insert_user"
         /\ call[p].pc \in {"touch", "update_one"} =>
              /\ call'[p].pc \in {"update_one", "done"}
              /\ message' = message
              /\ Cardinality(Owned(p)) = 2
         /\ (~Matches(call'[p].session_id) \/ call'[p].touch = "raised")
              => studysession' = studysession]_vars

\* one call returned after its touch of a stored session raised, another
\* returned after posting to a well-formed id that no session has
C7_Witness ==
  \E p, q \in Calls :
    /\ call[p].pc = "done" /\ call[q].pc = "done"
    /\ Matches(call[p].session_id) /\ call[p].touch = "raised"
    /\ call[q].session_id = AbsentId /\ call[q].touch = "sent"
    /\ Cardinality(Owned(p)) = 2 /\ Cardinality(Owned(q)) = 2

-----------------------------------------------------------------------------
\* C8 as stated: every assistant message directly follows, among the
\* messages of its session in insertion order, a user message whose content
\* generate_explanation maps to the assistant message's content.
C8_FollowsItsUserMessage ==
  \A p \in Calls :
    LET msgs == OfSession(call[p].session_id)
    IN  \A k \in DOMAIN msgs :
          msgs[k].role = "assistant" =>
            /\ k > 1
            /\ msgs[k - 1].role = "user"
            /\ msgs[k].content = generate_explanation(msgs[k - 1].content)

\* C8 as amended: every assistant message was inserted by a call that
\* inserted a user message of the same session before it, stamped no later,
\* and its content is generate_explanation of that user message's content;
\* the two are adjacent in the session when no other call has inserted into
\* the session.
C8_DerivedFromOwnUserMessage ==
  /\ \A k \in DOMAIN message :
       message[k].role = "assistant" =>
         \E p \in Calls : call[p].asst_id = message[k]._id
  /\ \A p \in Calls :
       call[p].asst_id # 0 =>
         LET u == PosOf(call[p].user_id)
             a == PosOf(call[p].asst_id)
         IN  /\ u < a
             /\ message[u].role = "user"
             /\ message[a].role = "assistant"
             /\ message[u].session_id = message[a].session_id
             /\ message[u].created_at <= message[a].created_at
             /\ message[a].content = generate_explanation(message[u].content)
             /\ (\A q \in Calls \ {p} :
                   Owned(q) = {} \/ call[q].session_id # call[p].session_id)
                  => \A i \in (u + 1)..(a - 1) :
                       message[i].session_id # message[a].session_id

\* two calls with different contents interleaved their inserts into one
\* session: user, user, assistant, assistant
C8_Witness ==
  \E p, q \in Calls :
    /\ p # q
    /\ call[p].session_id = call[q].session_id
    /\ strip(call[p].content) # strip(call[q].content)
    /\ call[p].asst_id # 0 /\ call[q].asst_id # 0
    /\ PosOf(call[p].user_id) < PosOf(call[q].user_id)
    /\ PosOf(call[q].user_id) < PosOf(call[p].asst_id)
    /\ Len(strip(call[q].content)) >= 1

-----------------------------------------------------------------------------
\* C10 as stated: the updated_at of a stored session never decreases.
C10_UpdatedAtNeverDecreases ==
  [][\A i \in DOMAIN studysession :
       studysession'[i].updated_at >= studysession[i].updated_at]_vars

\* C10 as amended: a touch that the store applies sets the session's
\* updated_at to the timestamp its call read after stamping both of its
\* messages, so right after the write updated_at is not before the
\* created_at of that call's two messages.
C10_TouchNotBeforeOwnMessages ==
  [][\A p \in Calls :
       (call[p].pc = "update_one" /\ call'[p].touch = "sent") =>
         \A i \in DOMAIN studysession :
           studysession[i]._id = ObjectId(call[p].session_id) =>
             /\ studysession'[i].updated_at = call[p].touch_now
             /\ \A k \in Owned(p) :
                  studysession'[i].updated_at >= message[k].created_at]_vars

\* every call has returned with its touch applied, and a session is left
\* with an updated_at before the created_at of one of its messages
C10_Witness ==
  /\ \A p \in Calls : call[p].pc = "done" /\ call[p].touch = "sent"
  /\ \E i \in DOMAIN studysession, k \in DOMAIN message :
       /\ message[k].session_id = ObjectIdStr(studysession[i]._id)
       /\ message[k].created_at > studysession[i].updated_at

-----------------------------------------------------------------------------
\* C2: create_session succeeds exactly when the trimmed title has 1 to 200
\* characters, and every stored session has a trimmed title of 1 to 200
\* characters.
C2_TrimmedTitleLength ==
  /\ response.op = "create_session" =>
       (response.status = 200
          <=> (Len(strip(response.arg)) >= 1
                 /\ Len(strip(response.arg)) <= TitleMaxLength))
  /\ \A i \in DOMAIN studysession :
       /\ studysession[i].title = strip(studysession[i].title)
       /\ Len(studysession[i].title) >= 1
       /\ Len(studysession[i].title) <= TitleMaxLength

-----------------------------------------------------------------------------
\* C4 as stated: with db None, every reply of the four operations is the
\* service-unavailable error.
C4_AlwaysUnavailable ==
  (db = "None" /\ response.op # "none") => response.status = 500

RequestValid(r) ==
  CASE r.op = "create_session" -> CreateSessionRequest(r.arg)
    [] r.op = "post_message" -> PostMessageRequest(r.arg[2])
    [] OTHER -> TRUE

\* C4 as amended: with db None, every step of the four operations sends a
\* failure reply, the service-unavailable error when the request body is
\* valid and the validation error when it is not, and leaves both
\* collections and the clock as they were; no post_message gets past its
\* first step.
C4_FailsBeforeAnyStoreCall ==
  [][db = "None" =>
       /\ studysession' = studysession
       /\ message' = message
       /\ clock' = clock
       /\ response'.op # "none"
       /\ response'.status = IF RequestValid(response') THEN 500 ELSE 422
       /\ response'.body = <<>>
       /\ \A p \in Calls :
            call'[p].pc \in {"idle", "rejected", "unavailable"}]_vars

\* with db None: a post_message was refused as unavailable, another was
\* refused by validation, and a query has just been refused as unavailable
C4_Witness ==
  /\ db = "None"
  /\ \E p, q \in Calls :
       call[p].pc = "unavailable" /\ call[q].pc = "rejected"
  /\ response.op \in {"list_sessions", "get_messages"}
  /\ response.status = 500

-----------------------------------------------------------------------------
(* What a query's reply says about the store it was answered from *)

\* the limit, kept within 1..top
Clamped(n, top) == IF n < 1 THEN 1 ELSE IF n > top THEN top ELSE n

\* the key of the stored document a reply item stands for
KeyOf(coll, item, key) ==
  coll[CHOOSE j \in DOMAIN coll : coll[j]._id = ObjectId(item.id)][key]

\* x comes strictly before y: ascending for direction 1, descending for -1
Before(x, y, direction) == IF direction = 1 THEN x < y ELSE x > y

\* the reply lists k distinct documents among `found`, each serialised from
\* the stored document, in the order of their keys, and no document left
\* out comes strictly before the last one listed
ListsFirst(coll, found, body, k, key, direction) ==
  /\ Len(body) = k
  /\ \A i \in DOMAIN body :
       /\ ObjectId_is_valid(body[i].id)
       /\ LET id == ObjectId(body[i].id)
          IN  \E j \in found :
                coll[j]._id = id /\ body[i] = to_str_id(coll[j])
  /\ Cardinality({body[i].id : i \in DOMAIN body}) = k
  /\ \A i \in DOMAIN body : i < k =>
       ~Before(KeyOf(coll, body[i + 1], key), KeyOf(coll, body[i], key),
               direction)
  /\ k > 0 =>
       LET listed == {ObjectId(body[i].id) : i \in DOMAIN body}
           last == KeyOf(coll, body[k], key)
       IN  \A j \in found :
             coll[j]._id \notin listed =>
               ~Before(coll[j][key], last, direction)

-----------------------------------------------------------------------------
\* C5: for every integer limit, list_sessions replies with the first k
\* sessions of the whole collection in descending order of updated_at, where
\* k is the smaller of the number of stored sessions and the limit kept
\* within 1..100.
C5_ListSessions ==
  (response.op = "list_sessions" /\ db = "Database") =>
    /\ response.status = 200
    /\ ListsFirst(studysession, DOMAIN studysession, response.body,
                  Min(Len(studysession), Clamped(response.arg, SessionLimitMax)),
                  "updated_at", -1)

\* limit 1000 answered with the 100 most recently updated of 101 sessions:
\* the one left out is the oldest that was never posted to, and the first
\* listed is the one whose posts touched it last
C5_Witness ==
  /\ response.op = "list_sessions"
  /\ response.arg = 1000
  /\ Len(studysession) = SessionLimitMax + 1
  /\ Len(response.body) = SessionLimitMax
  /\ response.body[1].id = ObjectIdStr(studysession[1]._id)
  /\ \A i \in DOMAIN response.body :
       response.body[i].id # ObjectIdStr(studysession[2]._id)

-----------------------------------------------------------------------------
\* C6: for every session_id and integer limit, get_messages replies with
\* messages of that session only, the first k of them in ascending order of
\* created_at, where k is the smaller of the number of such messages and
\* the limit kept within 1..500.
C6_GetMessages ==
  (response.op = "get_messages" /\ db = "Database") =>
    LET of == {i \in DOMAIN message :
                 message[i].session_id = response.arg[1]}
    IN  /\ response.status = 200
        /\ \A i \in DOMAIN response.body :
             response.body[i].session_id = response.arg[1]
        /\ ListsFirst(message, of, response.body,
                      Min(Cardinality(of),
                          Clamped(response.arg[2], MessageLimitMax)),
                      "created_at", 1)

\* limit 501 answered with the 500 oldest of a session's 502 messages
C6_Witness ==
  /\ response.op = "get_messages"
  /\ response.arg[2] = MessageLimitMax + 1
  /\ Cardinality({i \in DOMAIN message :
                    message[i].session_id = response.arg[1]})
       = MessageLimitMax + 2
  /\ Len(response.body) = MessageLimitMax
  /\ response.body[1].id = ObjectIdStr(message[1]._id)
  /\ response.body[MessageLimitMax].id
       = ObjectIdStr(message[MessageLimitMax]._id)

====
